---- MODULE Spec2Model ----
(***************************************************************************)
(* Model of robotics_toolbox: SO2, SE2, SO3 and PlanarManipulator.         *)
(*                                                                         *)
(* Numbers.  The code works on float64.  The model works on the exact      *)
(* values of a grid on which every operation of the code is exact:         *)
(*   - an angle is an integer number of quarter turns (1 stands for pi/2), *)
(*     so that np.cos and np.sin take the values -1, 0, 1;                 *)
(*   - a length of the planar manipulator is an integer number of tenths   *)
(*     (10 stands for 1.0), so that the gripper's 0.2 and 0.1 are exact;   *)
(*   - a 3D rotation vector is a rational vector in quarter turns, kept as *)
(*     an integer vector over a common denominator.                        *)
(* A float64 that is not a number is the flag nan of the value holding it. *)
(***************************************************************************)
EXTENDS Integers, Sequences, FiniteSets, TLC

VARIABLES
    a, b,             \* the objects under test: SO2 [rot] or SE2 [translation, rotation]
    theta,            \* ghost: the angle a's rotation stands for, in quarter turns mod 4
    out,              \* the last call: [op, val (what it returned), arg (what it was given)]
    robot             \* the PlanarManipulator: its fields

vars == << a, b, theta, out, robot >>

(***************************************************************************)
(* numpy on the grid                                                       *)
(***************************************************************************)

\* np.cos / np.sin of an angle given in quarter turns.  These are the exact
\* values; float64 is off by a rounding (np.sin(np.pi) is 1.2e-16), and the
\* code meets the exact entries when a rotation is built from its matrix.
np_cos(x) == CASE x % 4 = 0 -> 1 [] x % 4 = 1 -> 0 [] x % 4 = 2 -> -1 [] OTHER -> 0

np_sin(x) == CASE x % 4 = 0 -> 0 [] x % 4 = 1 -> 1 [] x % 4 = 2 -> 0 [] OTHER -> -1

\* np.arccos, in quarter turns, of the cosines of the grid
np_arccos(c) == CASE c = 1 -> 0 [] c = 0 -> 1 [] c = -1 -> 2

np_sign(x) == IF x > 0 THEN 1 ELSE IF x < 0 THEN -1 ELSE 0

\* A @ B and A @ v for 2x2 matrices, A.T
matmul2(A, B) ==
    << << A[1][1] * B[1][1] + A[1][2] * B[2][1], A[1][1] * B[1][2] + A[1][2] * B[2][2] >>,
       << A[2][1] * B[1][1] + A[2][2] * B[2][1], A[2][1] * B[1][2] + A[2][2] * B[2][2] >> >>

matvec2(A, x) ==
    << A[1][1] * x[1] + A[1][2] * x[2], A[2][1] * x[1] + A[2][2] * x[2] >>

transpose2(A) == << << A[1][1], A[2][1] >>, << A[1][2], A[2][2] >> >>

np_add2(x, y) == << x[1] + y[1], x[2] + y[2] >>

(***************************************************************************)
(* SO2                                                                     *)
(***************************************************************************)

\* What a raising call leaves in place of its result.
Raised == [rot |-> << >>]

\* SO2.__init__(arg, **kwargs).  arg is [kind, val]: a float, an ndarray (val
\* the matrix, shape its shape), None, or a value of another type (an int).
SO2_init(arg, kwargs) ==
    LET arg1 == IF arg.kind = "None" /\ "angle" \in DOMAIN kwargs
                THEN kwargs["angle"] ELSE arg
    IN  IF arg1.kind = "float"
        THEN [rot |-> << << np_cos(arg1.val), 0 - np_sin(arg1.val) >>,
                         << np_sin(arg1.val), np_cos(arg1.val) >> >>]
        ELSE IF arg1.kind = "ndarray"
        THEN IF arg1.shape = << 2, 2 >> THEN [rot |-> arg1.val] ELSE Raised
        ELSE Raised

Float(x) == [kind |-> "float", val |-> x, shape |-> << >>]

NdArray(m) == [kind |-> "ndarray", val |-> m, shape |-> << Len(m), Len(m[1]) >>]

NoKwargs == [k \in {} |-> Float(0)]

\* SO2(x) as the code writes it for a float x, and SO2() with the default 0.0
SO2(x) == SO2_init(Float(x), NoKwargs)

\* SO2.__mul__
SO2_mul(self, other) == SO2_init(NdArray(matmul2(self.rot, other.rot)), NoKwargs)

\* SO2.angle
SO2_angle(self) == np_arccos(self.rot[1][1]) * np_sign(self.rot[2][1])

\* the inverse with the transposition left out
SO2_inverse_untransposed(self) == SO2_init(NdArray(self.rot), NoKwargs)

\* SO2.inverse
SO2_inverse(self) == SO2_init(NdArray(transpose2(self.rot)), NoKwargs)

\* SO2.act; a vector of another shape fails the assertion
SO2_act(self, vector) == IF Len(vector) = 2 THEN matvec2(self.rot, vector) ELSE << >>

\* SO2.__eq__: np.allclose is equality on the grid
SO2_eq(self, other) == self.rot = other.rot

(***************************************************************************)
(* SE2                                                                     *)
(***************************************************************************)

None == [kind |-> "None", val |-> 0, shape |-> << >>]

Inst(s) == [kind |-> "SO2", val |-> s, shape |-> << >>]

\* SE2.__init__(translation, rotation): translation a 2-vector or None,
\* rotation an SO2 instance, a float, or anything else (then the identity).
SE2_init(translation, rotation) ==
    [translation |-> IF translation = << >> THEN << 0, 0 >> ELSE translation,
     rotation    |-> IF rotation.kind = "SO2" THEN rotation.val
                     ELSE IF rotation.kind = "float" THEN SO2(rotation.val)
                     ELSE SO2(0)]

\* the composition with the operands of the translation exchanged
SE2_mul_exchanged(self, other) ==
    SE2_init(np_add2(matvec2(other.rotation.rot, self.translation), other.translation),
             Inst(SO2_mul(self.rotation, other.rotation)))

\* SE2.__mul__
SE2_mul(self, other) ==
    SE2_init(np_add2(matvec2(self.rotation.rot, other.translation), self.translation),
             Inst(SO2_mul(self.rotation, other.rotation)))

\* SE2.inverse
SE2_inverse(self) ==
    LET inverseRotation == SO2_inverse(self.rotation)
        p == matvec2(inverseRotation.rot, self.translation)
    IN  SE2_init(<< p[1] * (0 - 1), p[2] * (0 - 1) >>, Inst(inverseRotation))

\* SE2.act
SE2_act(self, vector) ==
    IF Len(vector) = 2
    THEN np_add2(matvec2(self.rotation.rot, vector), self.translation)
    ELSE << >>

\* SE2.__eq__
SE2_eq(self, other) ==
    self.translation = other.translation /\ SO2_eq(self.rotation, other.rotation)

\* SE2.homogeneous: np.eye(3) with the rotation and the translation written in
SE2_homogeneous(self) ==
    [i \in 1 .. 3 |-> [j \in 1 .. 3 |->
        IF i <= 2 /\ j <= 2 THEN self.rotation.rot[i][j]
        ELSE IF i <= 2 THEN self.translation[i]
        ELSE IF j = 3 THEN 1 ELSE 0]]

\* SE2.from_homogenous fails its assertion on a shape other than (3, 3)
SE2_from_homogenous_raises(homogenous) == homogenous.shape # << 3, 3 >>

\* from_homogenous reading the translation from the last row
SE2_from_homogenous_last_row(homogenous) ==
    LET h == homogenous.val
    IN  SE2_init(<< h[3][1], h[3][2] >>,
                 Inst(SO2_init(NdArray(<< << h[1][1], h[1][2] >>,
                                          << h[2][1], h[2][2] >> >>), NoKwargs)))

\* SE2.from_homogenous
SE2_from_homogenous(homogenous) ==
    LET h == homogenous.val
        translation == << h[1][3], h[2][3] >>
        rotation == SO2_init(NdArray(<< << h[1][1], h[1][2] >>,
                                        << h[2][1], h[2][2] >> >>), NoKwargs)
    IN  SE2_init(translation, Inst(rotation))

(***************************************************************************)
(* Inputs of the SO2 / SE2 calls                                           *)
(***************************************************************************)

MaxTrans == 1

MaxTurn == 4

Coords == 0 .. MaxTrans

Vec2s == { << x, y >> : x \in Coords, y \in Coords }

Angles == (0 - MaxTurn) .. MaxTurn

Rotations == { SO2(k) : k \in 0 .. 3 }

\* the angle, in quarter turns mod 4, of the rotation a matrix stands for
TurnsOf(m) == CHOOSE k \in 0 .. 3 : m = << << np_cos(k), 0 - np_sin(k) >>,
                                           << np_sin(k), np_cos(k) >> >>

SE2s == { [translation |-> t, rotation |-> s] : t \in Vec2s, s \in Rotations }

\* the arguments SO2(...) is called with
SO2Args ==
    { Float(x) : x \in Angles }
        \cup { NdArray(s.rot) : s \in Rotations }
        \cup { NdArray(<< << 1, 0, 0 >>, << 0, 1, 0 >>, << 0, 0, 1 >> >>) }
        \cup { None, [kind |-> "int", val |-> 0, shape |-> << >>] }

\* SO2(arg) and SO2(None, angle=x)
SO2Calls ==
    { << arg, NoKwargs >> : arg \in SO2Args }
        \cup { << None, [k \in {"angle"} |-> Float(x)] >> : x \in 0 .. 3 }

\* no manipulator is built in the calls on SO2, SE2 and SO3
NoRobot == [q |-> << >>]

Called(op, val, arg) == [op |-> op, val |-> val, arg |-> arg]

IsSO2(o) == DOMAIN o = { "rot" }

IsSE2(o) == DOMAIN o = { "translation", "rotation" }

RotationOf(o) == IF IsSO2(o) THEN o ELSE o.rotation

(***************************************************************************)
(* The calls on SO2 and SE2                                                *)
(***************************************************************************)

InitSE2 ==
    /\ a \in Rotations \cup SE2s
    /\ b \in Rotations \cup SE2s
    /\ theta = TurnsOf(RotationOf(a).rot)
    /\ out = Called("none", 0, 0)
    /\ robot = NoRobot

\* a = SO2(arg, **kwargs)
so2_new ==
    \E call \in SO2Calls :
        LET s == SO2_init(call[1], call[2])
        IN  /\ out' = Called("SO2", s, call)
            /\ IF s = Raised
               THEN UNCHANGED << a, theta >>
               ELSE a' = s /\ theta' = TurnsOf(s.rot)
            /\ UNCHANGED << b, robot >>

\* a = a * b
so2_mul ==
    /\ IsSO2(a) /\ IsSO2(b)
    /\ a' = SO2_mul(a, b)
    /\ theta' = (theta + TurnsOf(b.rot)) % 4
    /\ out' = Called("SO2.__mul__", a', << a, b >>)
    /\ UNCHANGED << b, robot >>

so2_inverse ==
    /\ IsSO2(a)
    /\ out' = Called("SO2.inverse", SO2_inverse(a), a)
    /\ UNCHANGED << a, b, theta, robot >>

so2_angle ==
    /\ IsSO2(a)
    /\ out' = Called("SO2.angle", SO2_angle(a), a)
    /\ UNCHANGED << a, b, theta, robot >>

so2_act ==
    /\ IsSO2(a)
    /\ \E vector \in Vec2s \cup { << 1, 0, 0 >> } :
           out' = Called("SO2.act", SO2_act(a, vector), vector)
    /\ UNCHANGED << a, b, theta, robot >>

\* a = SE2(translation, rotation)
se2_new ==
    \E t \in Vec2s \cup { << >> },
       rotation \in { Inst(s) : s \in Rotations } \cup { Float(x) : x \in 0 .. 3 } \cup { None } :
        /\ a' = SE2_init(t, rotation)
        /\ theta' = TurnsOf(a'.rotation.rot)
        /\ out' = Called("SE2", a', << t, rotation >>)
        /\ UNCHANGED << b, robot >>

se2_mul ==
    /\ IsSE2(a) /\ IsSE2(b)
    /\ out' = Called("SE2.__mul__", SE2_mul(a, b), << a, b >>)
    /\ UNCHANGED << a, b, theta, robot >>

se2_inverse ==
    /\ IsSE2(a)
    /\ out' = Called("SE2.inverse", SE2_inverse(a), a)
    /\ UNCHANGED << a, b, theta, robot >>

se2_act ==
    /\ IsSE2(a)
    /\ \E vector \in Vec2s \cup { << 1, 0, 0 >> } :
           out' = Called("SE2.act", SE2_act(a, vector), vector)
    /\ UNCHANGED << a, b, theta, robot >>

\* the matrices SE2.from_homogenous is called with: those of the transforms,
\* a 3x3 matrix of no transform, and matrices of other shapes
HomogenousArgs ==
    { NdArray(SE2_homogeneous(t)) : t \in SE2s }
        \cup { NdArray(<< << 1, 1, 1 >>, << 1, 1, 1 >>, << 1, 1, 1 >> >>),
               NdArray(<< << 1, 0 >>, << 0, 1 >> >>),
               NdArray(<< << 1, 0, 0 >>, << 0, 1, 0 >> >>),
               NdArray(<< << 1, 0, 0, 0 >>, << 0, 1, 0, 0 >>,
                          << 0, 0, 1, 0 >>, << 0, 0, 0, 1 >> >>) }

se2_homogeneous ==
    /\ IsSE2(a)
    /\ out' = Called("SE2.homogeneous", SE2_homogeneous(a), a)
    /\ UNCHANGED << a, b, theta, robot >>

se2_from_homogenous ==
    /\ \E homogenous \in HomogenousArgs :
        out' = IF SE2_from_homogenous_raises(homogenous)
               THEN Called("SE2.from_homogenous raised", 0, homogenous)
               ELSE Called("SE2.from_homogenous", SE2_from_homogenous(homogenous),
                           homogenous)
    /\ UNCHANGED << a, b, theta, robot >>

NextSE2 ==
    \/ so2_new
    \/ so2_mul
    \/ so2_inverse
    \/ so2_angle
    \/ so2_act
    \/ se2_new
    \/ se2_mul
    \/ se2_inverse
    \/ se2_act
    \/ se2_homogeneous
    \/ se2_from_homogenous

SpecSE2 == InitSE2 /\ [][NextSE2]_vars

(***************************************************************************)
(* Claims on SO2 and SE2                                                   *)
(***************************************************************************)

SE2_identity == SE2_init(<< >>, None)

\* the representative in (-pi, pi] of an angle, in quarter turns
Wrap(t) == IF (t % 4) > 2 THEN (t % 4) - 4 ELSE t % 4

\* C3: for all SE2 a, b and every 2-vector w, (a * b).act(w) = a.act(b.act(w));
\* a * b has the rotation a.rotation * b.rotation and the translation
\* a.translation + a.rotation.act(b.translation).
C3_ComposeActs ==
    out.op = "SE2.__mul__" =>
        LET x == out.arg[1]
            y == out.arg[2]
        IN  /\ \A w \in Vec2s : SE2_act(out.val, w) = SE2_act(x, SE2_act(y, w))
            /\ out.val.rotation.rot = matmul2(x.rotation.rot, y.rotation.rot)
            /\ out.val.translation
                   = np_add2(x.translation, SO2_act(x.rotation, y.translation))

\* a composition whose operands both rotate and both translate
C3_Witness ==
    /\ out.op = "SE2.__mul__"
    /\ out.arg[1].rotation = SO2(1) /\ out.arg[1].translation = << 1, 0 >>
    /\ out.arg[2].rotation = SO2(2) /\ out.arg[2].translation = << 0, 1 >>
    /\ out.val.translation = << 0, 0 >>

\* C4: r * r.inverse() is the identity rotation; a.inverse() is
\* (R transposed, -(R transposed applied to t)), a * a.inverse() and
\* a.inverse() * a are the identity transform; the receiver is left unchanged.
C4_Inverse ==
    /\ out.op = "SO2.inverse" =>
           /\ SO2_eq(SO2_mul(out.arg, out.val), SO2(0))
           /\ a = out.arg
    /\ out.op = "SE2.inverse" =>
           LET Rt == transpose2(out.arg.rotation.rot)
               p  == matvec2(Rt, out.arg.translation)
           IN  /\ out.val.rotation.rot = Rt
               /\ out.val.translation = << 0 - p[1], 0 - p[2] >>
               /\ SE2_eq(SE2_mul(out.arg, out.val), SE2_identity)
               /\ SE2_eq(SE2_mul(out.val, out.arg), SE2_identity)
               /\ a = out.arg

\* the inverse of a transform that turns by a quarter and translates
C4_Witness ==
    /\ out.op = "SE2.inverse"
    /\ out.arg = [translation |-> << 1, 0 >>, rotation |-> SO2(1)]
    /\ out.val = [translation |-> << 0, 1 >>, rotation |-> SO2(3)]

\* C7: SO2(theta).angle is the representative of theta modulo 2 pi in
\* (-pi, pi], also for a rotation obtained from a matrix or by composition;
\* the rotation by pi has angle pi and the identity has angle 0.
C7_AngleWrapped ==
    out.op = "SO2.angle" => out.val = Wrap(theta)

(***************************************************************************)
(* SO3.  A 3-vector is [n, d, nan]: the vector n / d, or three NaN; a 3x3   *)
(* matrix is [n, d, nan] likewise.  An angle is a number of quarter turns.  *)
(***************************************************************************)

Vec3(n, d) == [n |-> n, d |-> d, nan |-> FALSE]

NaNVec3 == [n |-> << 0, 0, 0 >>, d |-> 1, nan |-> TRUE]

Mat3(n, d) == [n |-> n, d |-> d, nan |-> FALSE]

NaNMat3 == [n |-> << << 0, 0, 0 >>, << 0, 0, 0 >>, << 0, 0, 0 >> >>, d |-> 1, nan |-> TRUE]

Eye3 == << << 1, 0, 0 >>, << 0, 1, 0 >>, << 0, 0, 1 >> >>

\* the exact square root of a perfect square
np_sqrt(x) == CHOOSE s \in 0 .. x : s * s = x

IsSquare(x) == x >= 0 /\ \E s \in 0 .. x : s * s = x

matmul3(A, B) ==
    [i \in 1 .. 3 |-> [j \in 1 .. 3 |->
        A[i][1] * B[1][j] + A[i][2] * B[2][j] + A[i][3] * B[3][j]]]

transpose3(A) == [i \in 1 .. 3 |-> [j \in 1 .. 3 |-> A[j][i]]]

np_trace(A) == A[1][1] + A[2][2] + A[3][3]

\* np.linalg.norm of the integer vector n
np_linalg_norm(n) == np_sqrt(n[1] * n[1] + n[2] * n[2] + n[3] * n[3])

\* np.array_equal(np.identity(3), rot)
IsIdentity3(rot) == ~rot.nan /\ rot.n = [i \in 1 .. 3 |-> [j \in 1 .. 3 |-> rot.d * Eye3[i][j]]]

\* np.allclose of two matrices: equal as rationals, and no NaN
np_allclose3(A, B) ==
    /\ ~A.nan /\ ~B.nan
    /\ \A i \in 1 .. 3, j \in 1 .. 3 : A.n[i][j] * B.d = B.n[i][j] * A.d

\* SO3.__init__(rotation_matrix); None gives np.eye(3)
SO3_init(rotation_matrix) ==
    [rot |-> IF rotation_matrix = None THEN Mat3(Eye3, 1) ELSE rotation_matrix]

\* the vector read in the transposed order
from_skew_symmetric_transposed(matrix) ==
    [n |-> << matrix.n[2][3], matrix.n[3][1], matrix.n[1][2] >>,
     d |-> matrix.d, nan |-> matrix.nan]

\* SO3.to_skew_symmetric
to_skew_symmetric(vector) ==
    [n |-> << << 0, vector.n[3], (0 - 1) * vector.n[2] >>,
              << (0 - 1) * vector.n[3], 0, vector.n[1] >>,
              << vector.n[2], (0 - 1) * vector.n[1], 0 >> >>,
     d |-> vector.d, nan |-> vector.nan]

\* SO3.from_skew_symmetric
from_skew_symmetric(matrix) ==
    [n |-> << matrix.n[3][2], matrix.n[1][3], matrix.n[2][1] >>,
     d |-> matrix.d, nan |-> matrix.nan]

\* SO3.rodriguez(axis, angle): identity + sinpart + cospart over d * d
rodriguez(axis, angle) ==
    LET scew_symmetric == to_skew_symmetric(axis)
        K  == scew_symmetric.n
        d  == scew_symmetric.d
        KK == matmul3(K, K)
    IN  IF scew_symmetric.nan
        THEN NaNMat3
        ELSE Mat3([i \in 1 .. 3 |-> [j \in 1 .. 3 |->
                      d * d * Eye3[i][j]
                        + ((0 - 1) * np_sin(angle)) * d * K[i][j]
                        + (1 - np_cos(angle)) * KK[i][j]]],
                  d * d)

\* SO3.exp(rot_vector); the angle is the norm, (norm of n) / d quarter turns
SO3_exp(rot_vector) ==
    LET norm  == np_linalg_norm(rot_vector.n)
        angle == norm \div rot_vector.d
        axis  == IF norm = 0 THEN NaNVec3 ELSE Vec3(rot_vector.n, norm)
    IN  SO3_init(rodriguez(axis, angle))

\* SO3.angle_from_rot: [nan, val]
SO3_angle_from_rot(self) ==
    IF IsIdentity3(self.rot) THEN [nan |-> FALSE, val |-> 0]
    ELSE IF self.rot.nan THEN [nan |-> TRUE, val |-> 0]
    ELSE LET trace == np_trace(self.rot.n)
             d == self.rot.d
         \* np.arccos((1/2)*(trace - 1)) where that is 1 or 0, and NaN where
         \* it lies outside [-1, 1]; log is called on no other matrix (LogOnGrid)
         IN  IF trace = (0 - 1) * d THEN [nan |-> FALSE, val |-> 2]
             ELSE IF trace - d = 2 * d THEN [nan |-> FALSE, val |-> 0]
             ELSE IF trace - d = 0 THEN [nan |-> FALSE, val |-> 1]
             ELSE [nan |-> TRUE, val |-> 0]

\* the branch of axis_from_rot for angle == pi that reads column k
PiAxis(rot, k, angle) ==
    LET d == rot.d
        c == [i \in 1 .. 3 |-> rot.n[i][k] + (IF i = k THEN d ELSE 0)]
    IN  Vec3([i \in 1 .. 3 |-> angle * c[i] * np_sqrt(d)],
             d * np_sqrt(2 * (rot.n[k][k] + d)))

\* SO3.axis_from_rot
SO3_axis_from_rot(self) ==
    IF IsIdentity3(self.rot) THEN Vec3(<< 0, 0, 0 >>, 1)
    ELSE LET angle == SO3_angle_from_rot(self)
             rot == self.rot
         IN  IF angle.nan THEN NaNVec3
             ELSE IF angle.val = 2 /\ rot.n[3][3] # (0 - 1) * rot.d THEN PiAxis(rot, 3, 2)
             ELSE IF angle.val = 2 /\ rot.n[2][2] # (0 - 1) * rot.d THEN PiAxis(rot, 2, 2)
             ELSE IF angle.val = 2 /\ rot.n[1][1] # (0 - 1) * rot.d THEN PiAxis(rot, 1, 2)
             ELSE IF np_sin(angle.val) = 0 THEN NaNVec3
             ELSE LET D == [i \in 1 .. 3 |-> [j \in 1 .. 3 |-> rot.n[i][j] - rot.n[j][i]]]
                      w == from_skew_symmetric(Mat3(D, 2 * np_sin(angle.val) * rot.d))
                  IN  Vec3([i \in 1 .. 3 |-> w.n[i] * angle.val], w.d)

\* SO3.log
SO3_log(self) ==
    IF IsIdentity3(self.rot) THEN Vec3(<< 0, 0, 0 >>, 1) ELSE SO3_axis_from_rot(self)

\* SO3.__mul__, SO3.inverse, SO3.act, SO3.__eq__
SO3_mul(self, other) ==
    SO3_init([n |-> matmul3(self.rot.n, other.rot.n), d |-> self.rot.d * other.rot.d,
              nan |-> self.rot.nan \/ other.rot.nan])

SO3_inverse(self) ==
    SO3_init([n |-> transpose3(self.rot.n), d |-> self.rot.d, nan |-> self.rot.nan])

SO3_act(self, vector) ==
    IF Len(vector) = 3
    THEN [n |-> [i \in 1 .. 3 |-> self.rot.n[i][1] * vector[1] + self.rot.n[i][2] * vector[2]
                                    + self.rot.n[i][3] * vector[3]],
          d |-> self.rot.d, nan |-> self.rot.nan]
    ELSE NaNVec3

SO3_eq(self, other) == np_allclose3(self.rot, other.rot)

\* SO3.rx, SO3.ry, SO3.rz
SO3_rx(angle) ==
    SO3_init(Mat3(<< << 1, 0, 0 >>,
                     << 0, np_cos(angle), (0 - 1) * np_sin(angle) >>,
                     << 0, np_sin(angle), np_cos(angle) >> >>, 1))

SO3_ry(angle) ==
    SO3_init(Mat3(<< << np_cos(angle), 0, np_sin(angle) >>,
                     << 0, 1, 0 >>,
                     << (0 - 1) * np_sin(angle), 0, np_cos(angle) >> >>, 1))

SO3_rz(angle) ==
    SO3_init(Mat3(<< << np_cos(angle), (0 - 1) * np_sin(angle), 0 >>,
                     << np_sin(angle), np_cos(angle), 0 >>,
                     << 0, 0, 1 >> >>, 1))

\* SO3.from_quaternion(q), q = [qx, qy, qz, qw] = q.n / q.d with qw in -1, 0, 1
SO3_from_quaternion(q) ==
    LET xyz_vector == << q.n[1], q.n[2], q.n[3] >>
        norm  == np_linalg_norm(xyz_vector)
        xyz_axis == IF norm = 0 THEN NaNVec3 ELSE Vec3(xyz_vector, norm)
        angle == 2 * np_arccos(q.n[4] \div q.d)
    IN  SO3_init(rodriguez(xyz_axis, angle))

\* SO3.from_angle_axis(angle, axis)
SO3_from_angle_axis(angle, axis) == SO3_init(rodriguez(axis, angle))

(***************************************************************************)
(* Inputs of the SO3 calls                                                 *)
(***************************************************************************)

MaxComp == 2

Cube == { << x, y, z >> : x \in (0 - MaxComp) .. MaxComp,
                          y \in (0 - MaxComp) .. MaxComp,
                          z \in (0 - MaxComp) .. MaxComp }

SmallCube == { n \in Cube : \A i \in 1 .. 3 : n[i] \in { 0 - 1, 0, 1 } }

SquareSum(n) == n[1] * n[1] + n[2] * n[2] + n[3] * n[3]

\* the integer vectors of integer length
Measured == { n \in Cube : IsSquare(SquareSum(n)) }

\* rotation vectors n / d whose length is a whole number of quarter turns
RotVecs == { Vec3(n, d) : n \in { m \in Measured : np_linalg_norm(m) % 3 = 0 }, d \in { 1, 3 } }
               \cup { Vec3(n, 1) : n \in Measured }

\* the angles of the SO3 calls: -pi/2, 0, pi/2, pi
Turns3 == (0 - 1) .. 2

\* unit axes, and axes that are not of unit length
UnitAxes == { Vec3(n, np_linalg_norm(n)) : n \in Measured \ { << 0, 0, 0 >> } }

Axes == UnitAxes \cup { Vec3(n, 1) : n \in SmallCube \ { << 0, 0, 0 >> } }

\* quaternions [qx, qy, qz, qw] with qw in -1, 0, 1
Quats ==
    { Vec3(<< 0, 0, 0, w >>, 1) : w \in { 0 - 1, 1 } }
        \cup { Vec3(<< ax.n[1], ax.n[2], ax.n[3], 0 >>, ax.d) : ax \in UnitAxes }

\* the matrices log is called on: (trace - 1) / 2 is -1, 0, 1 or outside [-1, 1],
\* and the square root of the branch taken for pi is exact
LogOnGrid(rot) ==
    \/ rot.nan
    \/ LET x == np_trace(rot.n) - rot.d
       IN  \/ x \in { 0, 2 * rot.d }
           \/ x > 2 * rot.d
           \/ x < (0 - 2) * rot.d
           \/ /\ x = (0 - 2) * rot.d
              /\ IsSquare(rot.d)
              /\ \A k \in 1 .. 3 :
                     (rot.n[k][k] # (0 - 1) * rot.d /\ \A j \in (k + 1) .. 3 : rot.n[j][j] = (0 - 1) * rot.d)
                         => IsSquare(2 * (rot.n[k][k] + rot.d))

(***************************************************************************)
(* The calls on SO3: a is the SO3 under test, theta the rotation vector it *)
(* was made from by exp (<< v >>), if it was (else << >>).                  *)
(***************************************************************************)

InitSO3 ==
    /\ a = SO3_init(None)
    /\ b = SO3_init(None)
    /\ theta = << >>
    /\ out = Called("none", 0, 0)
    /\ robot = NoRobot

so3_exp ==
    \E rot_vector \in RotVecs :
        /\ a' = SO3_exp(rot_vector)
        /\ theta' = << rot_vector >>
        /\ out' = Called("SO3.exp", a', rot_vector)
        /\ UNCHANGED << b, robot >>

so3_log ==
    /\ LogOnGrid(a.rot)
    /\ out' = Called("SO3.log", SO3_log(a), a)
    /\ UNCHANGED << a, b, theta, robot >>

so3_rx ==
    \E angle \in Turns3 :
        /\ a' = SO3_rx(angle)
        /\ out' = Called("SO3.rx", a', angle)
        /\ theta' = << >>
        /\ UNCHANGED << b, robot >>

so3_ry ==
    \E angle \in Turns3 :
        /\ a' = SO3_ry(angle)
        /\ out' = Called("SO3.ry", a', angle)
        /\ theta' = << >>
        /\ UNCHANGED << b, robot >>

so3_rz ==
    \E angle \in Turns3 :
        /\ a' = SO3_rz(angle)
        /\ out' = Called("SO3.rz", a', angle)
        /\ theta' = << >>
        /\ UNCHANGED << b, robot >>

so3_from_quaternion ==
    \E q \in Quats :
        /\ a' = SO3_from_quaternion(q)
        /\ out' = Called("SO3.from_quaternion", a', q)
        /\ theta' = << >>
        /\ UNCHANGED << b, robot >>

so3_from_angle_axis ==
    \E angle \in Turns3, axis \in Axes :
        /\ a' = SO3_from_angle_axis(angle, axis)
        /\ out' = Called("SO3.from_angle_axis", a', << angle, axis >>)
        /\ theta' = << >>
        /\ UNCHANGED << b, robot >>

\* a * b for b a turn about z
so3_mul ==
    /\ \E angle \in Turns3 :
           out' = Called("SO3.__mul__", SO3_mul(a, SO3_rz(angle)), << a, SO3_rz(angle) >>)
    /\ UNCHANGED << a, b, theta, robot >>

so3_inverse ==
    /\ out' = Called("SO3.inverse", SO3_inverse(a), a)
    /\ UNCHANGED << a, b, theta, robot >>

so3_act ==
    /\ \E vector \in { << 1, 0, 0 >>, << 0, 1, 0 >>, << 0, 0, 1 >>, << 1, 0 >> } :
           out' = Called("SO3.act", SO3_act(a, vector), vector)
    /\ UNCHANGED << a, b, theta, robot >>

NextSO3 ==
    \/ so3_exp
    \/ so3_log
    \/ so3_rx
    \/ so3_ry
    \/ so3_rz
    \/ so3_from_quaternion
    \/ so3_from_angle_axis
    \/ so3_mul
    \/ so3_inverse
    \/ so3_act

SpecSO3 == InitSO3 /\ [][NextSO3]_vars

(***************************************************************************)
(* Claims on SO3                                                           *)
(***************************************************************************)

\* two 3-vectors are the same rational vector
VecEq(x, y) ==
    /\ ~x.nan /\ ~y.nan
    /\ \A i \in 1 .. 3 : x.n[i] * y.d = y.n[i] * x.d

\* an orthonormal matrix of determinant 1
IsRotation3(rot) ==
    /\ ~rot.nan
    /\ matmul3(rot.n, transpose3(rot.n)) = [i \in 1 .. 3 |-> [j \in 1 .. 3 |-> rot.d * rot.d * Eye3[i][j]]]
    /\ LET m == rot.n
       IN  m[1][1] * (m[2][2] * m[3][3] - m[2][3] * m[3][2])
             - m[1][2] * (m[2][1] * m[3][3] - m[2][3] * m[3][1])
             + m[1][3] * (m[2][1] * m[3][2] - m[2][2] * m[3][1])
           = rot.d * rot.d * rot.d

\* C5: for every rotation vector w with 0 < |w| < pi, SO3.exp(w).log() is w,
\* with the same axis sign and the same angle.
C5_ExpLog ==
    (/\ out.op = "SO3.log"
     /\ theta # << >>
     /\ theta[1].n # << 0, 0, 0 >>
     /\ np_linalg_norm(theta[1].n) < 2 * theta[1].d)
        => VecEq(out.val, theta[1])

\* the logarithm of the quarter turn about the axis (1, -2, 2) / 3
C5_Witness ==
    /\ out.op = "SO3.log"
    /\ theta = << Vec3(<< 1, 0 - 2, 2 >>, 3) >>
    /\ out.arg = SO3_exp(theta[1])
    /\ out.arg.rot.n[1] = << 1, 0 - 8, 0 - 4 >>
    /\ VecEq(out.val, Vec3(<< 1, 0 - 2, 2 >>, 3))

\* C6: SO3.exp([0, 0, 0]) is the identity rotation.
C6_ExpZeroIsIdentity ==
    (out.op = "SO3.exp" /\ out.arg.n = << 0, 0, 0 >>)
        => SO3_eq(out.val, SO3_init(None))

\* C8: every SO3 returned by exp, from_angle_axis, from_quaternion, rx, ry, rz
\* holds an orthonormal matrix of determinant 1, for every angle and every
\* nonzero axis; from_angle_axis(angle, axis) is exp(angle * axis / |axis|).
\* (Stated for nonzero rotation vectors and vector parts: exp of the zero vector
\* is C6's case.)
C8_ProducedAreRotations ==
    /\ (\/ out.op \in { "SO3.from_angle_axis", "SO3.rx", "SO3.ry", "SO3.rz" }
        \/ out.op = "SO3.exp" /\ out.arg.n # << 0, 0, 0 >>
        \/ out.op = "SO3.from_quaternion" /\ SubSeq(out.arg.n, 1, 3) # << 0, 0, 0 >>)
           => IsRotation3(out.val.rot)
    /\ (out.op = "SO3.from_angle_axis" /\ out.arg[1] # 0 /\ IsSquare(SquareSum(out.arg[2].n)))
           => LET angle == out.arg[1]
                  n == out.arg[2].n
              IN  SO3_eq(out.val,
                         SO3_exp(Vec3([i \in 1 .. 3 |-> angle * n[i]], np_linalg_norm(n))))

(***************************************************************************)
(* PlanarManipulator                                                       *)
(*                                                                         *)
(* Lengths are counted in tenths (10 is 1.0), joint angles and the initial *)
(* rotations of prismatic joints in quarter turns, as for SO2.  The        *)
(* link parameters and the configurations are arrays of floats.            *)
(***************************************************************************)

\* gripper_length = 0.2, the default of the constructor
GripperLength == 2

\* self.gripper_opening = 0.2
GripperOpening == 2

\* np.pi / 8, the entries of q after construction.  The value is on no grid:
\* no kinematics is computed from it, the calls below wait for a
\* configuration to be set.
PiOver8 == [kind |-> "float np.pi / 8", val |-> 0, shape |-> << >>]

ListOf(xs) == [kind |-> "list", val |-> xs, shape |-> << Len(xs) >>]

Str(xs) == [kind |-> "str", val |-> xs, shape |-> << >>]

\* what links and obstacles are made of: a segment is a pair of points
\* (LineString of two points), a polygon an axis-parallel box
\* [lo, hi] (shapely.box(lo[1], lo[2], hi[1], hi[2]))
MultiPolygon(boxes) == [kind |-> "MultiPolygon", val |-> boxes, shape |-> << >>]

\* PlanarManipulator.__init__; the assertion on the lengths is the caller's guard
PlanarManipulator_init(link_parameters, structure, base_pose, gripper_length) ==
    LET lp == IF link_parameters.kind = "None" THEN << 5, 5, 5 >> ELSE link_parameters.val
        n  == Len(lp)
    IN  [link_parameters |-> lp,
         base_pose       |-> IF base_pose.kind = "None" THEN SE2_init(<< >>, None)
                             ELSE base_pose.val,
         structure       |-> IF structure.kind = "None" THEN ListOf([i \in 1 .. n |-> "R"])
                             ELSE structure,
         gripper_length  |-> gripper_length,
         q               |-> [i \in 1 .. n |-> PiOver8],
         gripper_opening |-> GripperOpening,
         q_min           |-> [i \in 1 .. n |-> 0 - 2],
         q_max           |-> [i \in 1 .. n |-> 2],
         obstacles       |-> None]

\* PlanarManipulator.dof
dof(self) == Len(self.q)

\* PlanarManipulator.joint_count
joint_count(self) == Len(self.structure.val)

\* PlanarManipulator.set_configuration
set_configuration(self, configuration) == [self EXCEPT !.q = configuration]

\* PlanarManipulator.configuration
configuration(self) == self.q

\* PlanarManipulator.get_se2_for_prismatic_joint
get_se2_for_prismatic_joint(extension, initial_rotation) ==
    SE2_init(SO2_act(SO2_init(initial_rotation, NoKwargs), << extension.val, 0 >>),
             initial_rotation)

\* get_se2_for_rotation_joint with the link laid along y
get_se2_for_rotation_joint_along_y(rotation, link_length) ==
    SE2_init(SO2_act(SO2_init(rotation, NoKwargs), << 0, link_length.val >>), rotation)

\* PlanarManipulator.get_se2_for_rotation_joint
get_se2_for_rotation_joint(rotation, link_length) ==
    SE2_init(SO2_act(SO2_init(rotation, NoKwargs), << link_length.val, 0 >>), rotation)

\* PlanarManipulator.__get_list_of_joint_types: str.split("") raises
\* ValueError, so a structure given as a string has no list of joint types
get_list_of_joint_types_raises(self) == self.structure.kind = "str"

get_list_of_joint_types(self) == self.structure.val

\* get_transformation_from_joint raises: q has no entry joint_index
\* (IndexError), or the structure is a string.  joint_index counts from 0.
get_transformation_from_joint_raises(self, joint_index) ==
    \/ joint_index + 1 > Len(self.q)
    \/ get_list_of_joint_types_raises(self)

\* PlanarManipulator.get_transformation_from_joint
get_transformation_from_joint(self, joint_index) ==
    LET q          == self.q[joint_index + 1]
        param      == Float(self.link_parameters[joint_index + 1])
        joint_type == get_list_of_joint_types(self)[joint_index + 1]
    IN  IF joint_type = "R"
        THEN get_se2_for_rotation_joint(q, param)
        ELSE get_se2_for_prismatic_joint(q, param)

\* PlanarManipulator.__reduce_transformations: functools.reduce from the left
RECURSIVE reduce_transformations(_, _)
reduce_transformations(transformations, base) ==
    IF transformations = << >>
    THEN base
    ELSE reduce_transformations(Tail(transformations),
                                SE2_mul(base, Head(transformations)))

\* [self.get_transformation_from_joint(joint_index) for joint_index in range(lo, hi)]
joint_transforms(self, lo, hi) ==
    [k \in 1 .. (hi - lo) |-> get_transformation_from_joint(self, lo + k - 1)]

\* some joint of range(lo, hi) makes get_transformation_from_joint raise
joint_transforms_raise(self, lo, hi) ==
    \E joint_index \in lo .. (hi - 1) : get_transformation_from_joint_raises(self, joint_index)

\* PlanarManipulator.flange_pose
flange_pose(self) ==
    reduce_transformations(joint_transforms(self, 0, joint_count(self)), self.base_pose)

\* PlanarManipulator.fk_all_links; frames[1] is the code's frames[0]
fk_all_links(self) ==
    [f \in 1 .. (joint_count(self) + 1) |->
        IF f = 1 THEN self.base_pose
        ELSE reduce_transformations(joint_transforms(self, 0, f - 1), self.base_pose)]

\* fk_from_index_to_ee starting from the base pose
fk_from_index_to_ee_from_base(self, index) ==
    reduce_transformations(joint_transforms(self, index, joint_count(self)),
                           self.base_pose)

\* PlanarManipulator.fk_from_index_to_ee
fk_from_index_to_ee(self, index) ==
    reduce_transformations(joint_transforms(self, index, joint_count(self)),
                           SE2_init(<< >>, None))

\* PlanarManipulator._gripper_lines
gripper_lines(self, flange) ==
    LET gripper_opening == self.gripper_opening \div 2
        at(x, y) == SE2_mul(flange, SE2_init(<< x, y >>, None)).translation
    IN  << << at(0, 0 - gripper_opening), at(0, gripper_opening) >>,
           << at(0, 0 - gripper_opening), at(self.gripper_length, 0 - gripper_opening) >>,
           << at(0, gripper_opening), at(self.gripper_length, gripper_opening) >> >>

\* the columns of the jacobian without the rotation into the reference frame
jacobian_in_joint_frame(self) ==
    LET transforms == joint_transforms(self, 0, joint_count(self))
        frames     == fk_all_links(self)
        jac == [c \in 1 .. Len(transforms) |->
                  IF self.structure.val[c] = "P"
                  THEN SO2_act(frames[c + 1].rotation, << 1, 0 >>) \o << 0 >>
                  ELSE LET T_je == reduce_transformations(
                                       SubSeq(transforms, c, Len(transforms)),
                                       SE2_init(<< >>, None))
                       IN  SO2_act(SO2(1), T_je.translation) \o << 1 >>]
    IN  [r \in 1 .. 3 |-> [c \in 1 .. Len(jac) |-> jac[c][r]]]

\* PlanarManipulator.jacobian: column c is the code's jac[index] for index = c - 1,
\* and the result is the transpose, three rows of one entry per joint.
\* Lengths per radian for a revolute joint, a direction for a prismatic one.
jacobian(self) ==
    LET transforms == joint_transforms(self, 0, joint_count(self))
        frames     == fk_all_links(self)
        jac == [c \in 1 .. Len(transforms) |->
                  IF self.structure.val[c] = "P"
                  THEN SO2_act(frames[c + 1].rotation, << 1, 0 >>) \o << 0 >>
                  ELSE LET T_je == reduce_transformations(
                                       SubSeq(transforms, c, Len(transforms)),
                                       SE2_init(<< >>, None))
                           t_je == T_je.translation
                           n    == SO2_act(SO2(1), t_je)
                       IN  SO2_act(frames[c].rotation, n) \o << 1 >>]
    IN  [r \in 1 .. 3 |-> [c \in 1 .. Len(jac) |-> jac[c][r]]]

\* shapely: the cross product (p - o) x (q - o), the side of q of the line o p
Cross(o, p, q) == (p[1] - o[1]) * (q[2] - o[2]) - (p[2] - o[2]) * (q[1] - o[1])

InBox(lo, hi, p) ==
    /\ lo[1] <= p[1] /\ p[1] <= hi[1]
    /\ lo[2] <= p[2] /\ p[2] <= hi[2]

Min(x, y) == IF x <= y THEN x ELSE y

Max(x, y) == IF x <= y THEN y ELSE x

\* r lies on the segment s, given that it lies on its line
OnSegment(s, r) ==
    InBox(<< Min(s[1][1], s[2][1]), Min(s[1][2], s[2][2]) >>,
          << Max(s[1][1], s[2][1]), Max(s[1][2], s[2][2]) >>, r)

\* LineString(s).intersects(LineString(t)): the segments share a point
LineString_intersects(s, t) ==
    LET d1 == np_sign(Cross(t[1], t[2], s[1]))
        d2 == np_sign(Cross(t[1], t[2], s[2]))
        d3 == np_sign(Cross(s[1], s[2], t[1]))
        d4 == np_sign(Cross(s[1], s[2], t[2]))
    IN  \/ d1 * d2 < 0 /\ d3 * d4 < 0
        \/ d1 = 0 /\ OnSegment(t, s[1])
        \/ d2 = 0 /\ OnSegment(t, s[2])
        \/ d3 = 0 /\ OnSegment(s, t[1])
        \/ d4 = 0 /\ OnSegment(s, t[2])

\* MultiLineString(S).intersects(MultiLineString(T)): some two segments do
MultiLineString_intersects(S, T) ==
    \E s \in S, t \in T : LineString_intersects(s, t)

\* a segment intersects a filled box: an end inside it, or it crosses an edge
LineString_intersects_box(s, box) ==
    LET lo == box[1]
        hi == box[2]
        edges == { << lo, << hi[1], lo[2] >> >>, << << hi[1], lo[2] >>, hi >>,
                   << hi, << lo[1], hi[2] >> >>, << << lo[1], hi[2] >>, lo >> }
    IN  \/ InBox(lo, hi, s[1])
        \/ InBox(lo, hi, s[2])
        \/ \E e \in edges : LineString_intersects(s, e)

\* MultiLineString(S).intersects(self.obstacles); None intersects nothing
intersects_obstacles(S, obstacles) ==
    IF obstacles.kind = "None"
    THEN FALSE
    ELSE \E s \in S, box \in obstacles.val : LineString_intersects_box(s, box)

\* the points of in_collision: the origins of the frames
frame_points(self) ==
    LET frames == fk_all_links(self)
    IN  [f \in 1 .. Len(frames) |-> frames[f].translation]

\* the list links of in_collision, each element the set of its segments: one
\* LineString per link but the last, then one MultiLineString of the three
\* gripper lines and the last link
collision_links(self) ==
    LET frames == fk_all_links(self)
        points == frame_points(self)
        lines  == gripper_lines(self, frames[Len(frames)])
        n      == Len(points) - 1
    IN  [i \in 1 .. n |->
            IF i < n
            THEN { << points[i], points[i + 1] >> }
            ELSE { lines[1], lines[2], lines[3], << points[n], points[n + 1] >> }]

\* in_collision testing the pairs of neighbours too
in_collision_with_neighbours(self) ==
    LET links == collision_links(self)
    IN  \/ \E i \in 1 .. Len(links) : \E j \in (i + 1) .. Len(links) :
               MultiLineString_intersects(links[i], links[j])
        \/ intersects_obstacles(UNION { links[i] : i \in 1 .. Len(links) },
                                self.obstacles)

\* in_collision testing the obstacles only
in_collision_with_obstacles_only(self) ==
    LET links == collision_links(self)
    IN  intersects_obstacles(UNION { links[i] : i \in 1 .. Len(links) },
                             self.obstacles)

\* PlanarManipulator.in_collision
in_collision(self) ==
    LET links == collision_links(self)
    IN  \/ \E i \in 1 .. Len(links) : \E j \in (i + 2) .. Len(links) :
               MultiLineString_intersects(links[i], links[j])
        \/ intersects_obstacles(UNION { links[i] : i \in 1 .. Len(links) },
                                self.obstacles)

\* PlanarManipulator.sample_configuration: np.random.uniform(q_min, q_max)
\* draws, for every joint, a value of [q_min, q_max); two of the draws are
\* kept, the least and the greatest one of the grid.  Nothing of self is
\* assigned.
sample_configuration(self) ==
    { [i \in 1 .. Len(self.q_min) |-> Float(self.q_min[i])],
      [i \in 1 .. Len(self.q_min) |-> Float(self.q_max[i] - 1)] }

\* to_delta_vector(q_i) of jacobian_finite_difference: delta at q_i, 0 elsewhere;
\* 1 stands for delta here
to_delta_vector(self, q_i) ==
    [q \in 1 .. joint_count(self) |-> IF q - 1 = q_i THEN 1 ELSE 0]

\* np.add(q, delta_vector) fails when the shapes do not broadcast
np_add_raises(q, delta_vector) ==
    Len(q) # Len(delta_vector) /\ Len(q) # 1 /\ Len(delta_vector) # 1

\* np.add(q, delta_vector).  delta (1e-5 by default) is no step of the grid:
\* an entry it was added to is marked, and keeps the value it had.
np_add(q, delta_vector) ==
    LET n     == IF Len(q) = 1 THEN Len(delta_vector) ELSE Len(q)
        qe(i) == q[IF Len(q) = 1 THEN 1 ELSE i]
        de(i) == delta_vector[IF Len(delta_vector) = 1 THEN 1 ELSE i]
    IN  [i \in 1 .. n |->
            IF de(i) = 0 THEN qe(i)
            ELSE [kind |-> qe(i).kind \o " + delta", val |-> qe(i).val, shape |-> qe(i).shape]]

\* __finite_difference without the deepcopy: q of self is perturbed
finite_difference_in_place(self, delta_vector) ==
    IF np_add_raises(self.q, delta_vector)
    THEN [self |-> self, copy_robot |-> self, raises |-> TRUE]
    ELSE LET copy_robot == [self EXCEPT !.q = np_add(self.q, delta_vector)]
         IN  [self       |-> copy_robot,
              copy_robot |-> copy_robot,
              raises     |-> joint_transforms_raise(copy_robot, 0, joint_count(copy_robot))]

\* PlanarManipulator.__finite_difference: what it leaves of self, the copy it
\* perturbed, and whether it raised (np.add, or flange_pose of the copy or of
\* self).  The quotient it returns is a float off the grid.
finite_difference(self, delta_vector) ==
    IF np_add_raises(self.q, delta_vector)
    THEN [self |-> self, copy_robot |-> self, raises |-> TRUE]
    ELSE LET copy_robot == [self EXCEPT !.q = np_add(self.q, delta_vector)]
         IN  [self       |-> self,
              copy_robot |-> copy_robot,
              raises     |-> \/ joint_transforms_raise(copy_robot, 0, joint_count(copy_robot))
                             \/ joint_transforms_raise(self, 0, joint_count(self))]

\* the loops of jacobian_finite_difference from call number k on: for each of
\* the three selectors, one __finite_difference per joint
RECURSIVE finite_differences(_, _)
finite_differences(self, k) ==
    IF k >= 3 * joint_count(self)
    THEN [self |-> self, raises |-> FALSE]
    ELSE LET d == finite_difference(self, to_delta_vector(self, k % joint_count(self)))
         IN  IF d.raises THEN [self |-> d.self, raises |-> TRUE]
             ELSE finite_differences(d.self, k + 1)

\* PlanarManipulator.jacobian_finite_difference: what it leaves of self and
\* whether it raised; it returns 3 rows of joint_count floats off the grid
jacobian_finite_difference(self) == finite_differences(self, 0)

\* PlanarManipulator.ik_numerical: not implemented, returns False
ik_numerical(self, flange_pose_desired) == FALSE

\* PlanarManipulator.ik_analytical fails its assertion unless the structure
\* is the string "RRR" or "PRR" (a list equals no string)
ik_analytical_raises(self) ==
    ~ (self.structure.kind = "str"
         /\ self.structure.val \in { << "R", "R", "R" >>, << "P", "R", "R" >> })

\* PlanarManipulator.ik_analytical: not implemented, returns []
ik_analytical(self, flange_pose_desired) == << >>

(***************************************************************************)
(* Inputs of the PlanarManipulator calls                                   *)
(***************************************************************************)

\* joint values reach MaxReach quarter turns and MaxReach half lengths
MaxReach == 2

RevoluteValues == 0 .. MaxReach

PrismaticValues == { 5 * k : k \in 0 .. MaxReach }

Mounted == [kind |-> "SE2", val |-> SE2_init(<< 10, 0 - 5 >>, Float(1)), shape |-> << >>]

\* the arguments PlanarManipulator(...) is called with
Designs ==
    { << None, None >>,
      << ListOf(<< 10, 10, 10 >>), ListOf(<< "R", "R", "R" >>) >>,
      << ListOf(<< 10, 5, 10 >>), None >>,
      << ListOf(<< 10, 10, 5 >>), ListOf(<< "R", "R", "R" >>) >>,
      << ListOf(<< 10, 1, 5 >>), ListOf(<< "R", "P", "R" >>) >>,
      << ListOf(<< 0, 10 >>), ListOf(<< "P", "R" >>) >>,
      << ListOf(<< 2, 10, 3 >>), ListOf(<< "P", "R", "P" >>) >>,
      << ListOf(<< 10 >>), None >>,
      << ListOf(<< 10, 10, 10 >>), Str(<< "R", "R", "R" >>) >>,
      << ListOf(<< 10, 10 >>), ListOf(<< "R" >>) >> }

PlanarManipulatorCalls ==
    { [link_parameters |-> d[1], structure |-> d[2], base_pose |-> base] :
        d \in Designs, base \in { None, Mounted } }
        \cup { [link_parameters |-> ListOf(<< 10, 10, 10, 10 >>),
                structure |-> None, base_pose |-> None] }

\* the arrays of floats set_configuration is called with: every value of
\* every joint, and arrays one entry short and one entry long
Configurations(self) ==
    LET n == joint_count(self)
        values(i) == IF self.structure.val[i] = "P" THEN PrismaticValues
                     ELSE RevoluteValues
    IN  { [i \in 1 .. n |-> Float(f[i])] :
            f \in { g \in [1 .. n -> RevoluteValues \cup PrismaticValues] :
                      \A i \in 1 .. n : g[i] \in values(i) } }
          \cup { [i \in 1 .. (n - 1) |-> Float(0)], [i \in 1 .. (n + 1) |-> Float(0)] }

ObstacleSets == { None, MultiPolygon({ << << 12, 0 - 2 >>, << 18, 2 >> >> }) }

Poses == { SE2_init(<< 20, 10 >>, Float(1)) }

HasRobot == DOMAIN robot # { "q" }

\* a configuration has been set: q holds values on the grid
Configured == HasRobot /\ \A i \in 1 .. Len(robot.q) : robot.q[i] # PiOver8

\* no link of the robot has length zero (a LineString of two equal points is
\* not a valid geometry, and what shapely answers for it is not modelled)
ValidLinks(self) ==
    LET points == frame_points(self)
    IN  \A i \in 1 .. (Len(points) - 1) : points[i] # points[i + 1]

(***************************************************************************)
(* The calls on a PlanarManipulator                                        *)
(***************************************************************************)

InitManipulator ==
    /\ a = SE2_init(<< >>, None)
    /\ b = SE2_init(<< >>, None)
    /\ theta = 0
    /\ out = Called("none", 0, 0)
    /\ robot = NoRobot

\* robot = PlanarManipulator(link_parameters, structure, base_pose)
pm_new ==
    /\ ~ HasRobot
    /\ \E call \in PlanarManipulatorCalls :
        LET self == PlanarManipulator_init(call.link_parameters, call.structure,
                                           call.base_pose, GripperLength)
        IN  IF Len(self.structure.val) = Len(self.link_parameters)
            THEN /\ robot' = self
                 /\ out' = Called("PlanarManipulator", 0, call)
                 /\ UNCHANGED << a, b, theta >>
            ELSE /\ out' = Called("PlanarManipulator raised", 0, call)
                 /\ UNCHANGED << a, b, theta, robot >>

\* robot.set_configuration(configuration)
pm_set_configuration ==
    /\ HasRobot
    /\ \E c \in Configurations(robot) :
        /\ robot' = set_configuration(robot, c)
        /\ out' = Called("set_configuration", 0, c)
    /\ UNCHANGED << a, b, theta >>

\* robot.obstacles = obstacles
pm_set_obstacles ==
    /\ HasRobot
    /\ \E obstacles \in ObstacleSets :
        /\ robot' = [robot EXCEPT !.obstacles = obstacles]
        /\ out' = Called("obstacles", 0, obstacles)
    /\ UNCHANGED << a, b, theta >>

pm_configuration ==
    /\ HasRobot
    /\ out' = Called("configuration", configuration(robot), 0)
    /\ UNCHANGED << a, b, theta, robot >>

pm_dof ==
    /\ HasRobot
    /\ out' = Called("dof", dof(robot), 0)
    /\ UNCHANGED << a, b, theta, robot >>

pm_joint_count ==
    /\ HasRobot
    /\ out' = Called("joint_count", joint_count(robot), 0)
    /\ UNCHANGED << a, b, theta, robot >>

pm_flange_pose ==
    /\ Configured
    /\ out' = IF joint_transforms_raise(robot, 0, joint_count(robot))
              THEN Called("flange_pose raised", 0, 0)
              ELSE Called("flange_pose", flange_pose(robot), 0)
    /\ UNCHANGED << a, b, theta, robot >>

pm_fk_all_links ==
    /\ Configured
    /\ out' = IF joint_transforms_raise(robot, 0, joint_count(robot))
              THEN Called("fk_all_links raised", 0, 0)
              ELSE Called("fk_all_links", fk_all_links(robot), 0)
    /\ UNCHANGED << a, b, theta, robot >>

pm_fk_from_index_to_ee ==
    /\ Configured
    /\ \E index \in 0 .. joint_count(robot) :
        out' = IF joint_transforms_raise(robot, index, joint_count(robot))
               THEN Called("fk_from_index_to_ee raised", 0, index)
               ELSE Called("fk_from_index_to_ee", fk_from_index_to_ee(robot, index), index)
    /\ UNCHANGED << a, b, theta, robot >>

pm_jacobian ==
    /\ Configured
    /\ out' = IF joint_transforms_raise(robot, 0, joint_count(robot))
              THEN Called("jacobian raised", 0, 0)
              ELSE Called("jacobian", jacobian(robot), 0)
    /\ UNCHANGED << a, b, theta, robot >>

pm_in_collision ==
    /\ Configured
    /\ IF joint_transforms_raise(robot, 0, joint_count(robot))
       THEN out' = Called("in_collision raised", 0, 0)
       ELSE /\ ValidLinks(robot)
            /\ out' = Called("in_collision", in_collision(robot), 0)
    /\ UNCHANGED << a, b, theta, robot >>

pm_ik_numerical ==
    /\ HasRobot
    /\ \E pose \in Poses :
        out' = Called("ik_numerical", ik_numerical(robot, pose), pose)
    /\ UNCHANGED << a, b, theta, robot >>

pm_ik_analytical ==
    /\ HasRobot
    /\ \E pose \in Poses :
        out' = IF ik_analytical_raises(robot)
               THEN Called("ik_analytical raised", 0, pose)
               ELSE Called("ik_analytical", ik_analytical(robot, pose), pose)
    /\ UNCHANGED << a, b, theta, robot >>

pm_sample_configuration ==
    /\ HasRobot
    /\ \E sample \in sample_configuration(robot) :
        out' = Called("sample_configuration", sample, 0)
    /\ UNCHANGED << a, b, theta, robot >>

pm_jacobian_finite_difference ==
    /\ HasRobot
    /\ LET done == jacobian_finite_difference(robot)
       IN  /\ robot' = done.self
           /\ out' = IF done.raises
                     THEN Called("jacobian_finite_difference raised", 0, 0)
                     ELSE Called("jacobian_finite_difference",
                                 << 3, joint_count(robot) >>, 0)
    /\ UNCHANGED << a, b, theta >>

NextManipulator ==
    \/ pm_new
    \/ pm_set_configuration
    \/ pm_set_obstacles
    \/ pm_configuration
    \/ pm_dof
    \/ pm_joint_count
    \/ pm_flange_pose
    \/ pm_fk_all_links
    \/ pm_fk_from_index_to_ee
    \/ pm_jacobian
    \/ pm_in_collision
    \/ pm_ik_numerical
    \/ pm_ik_analytical
    \/ pm_sample_configuration
    \/ pm_jacobian_finite_difference

SpecManipulator == InitManipulator /\ [][NextManipulator]_vars

(***************************************************************************)
(* Claims on the PlanarManipulator                                         *)
(***************************************************************************)

RECURSIVE SumOf(_)
SumOf(xs) == IF xs = << >> THEN 0 ELSE Head(xs) + SumOf(Tail(xs))

AllRevolute(self) == \A i \in 1 .. joint_count(self) : self.structure.val[i] = "R"

AllZero(self) == \A i \in 1 .. Len(self.q) : self.q[i] = Float(0)

\* C1: for an all-revolute manipulator with the identity base pose whose
\* configuration has been set to all zeros, flange_pose() returns the
\* translation (sum of the link lengths, 0) and a rotation of angle 0.
C1_FlangeAtZero ==
    (/\ out.op = "flange_pose"
     /\ AllRevolute(robot)
     /\ robot.base_pose = SE2_identity
     /\ AllZero(robot))
        => /\ out.val.translation = << SumOf(robot.link_parameters), 0 >>
           /\ SO2_angle(out.val.rotation) = 0

\* the scenario of C1: links of length 1, 1, 1 and the flange at (3, 0)
C1_Witness ==
    /\ out.op = "flange_pose"
    /\ robot.link_parameters = << 10, 10, 10 >>
    /\ robot.structure = ListOf(<< "R", "R", "R" >>)
    /\ robot.base_pose = SE2_identity
    /\ robot.q = << Float(0), Float(0), Float(0) >>
    /\ out.val.translation = << 30, 0 >>
    /\ SO2_angle(out.val.rotation) = 0

\* The derivative of the flange pose by the product rule.  The pose is the
\* product of the homogeneous matrices of the base and of the joints; the
\* matrix of joint i is [R(q) | R(q) (l, 0)] for a revolute joint and
\* [R(l) | R(l) (q, 0)] for a prismatic one, and d/dx R(x) = R(x + pi/2).
Homogeneous(t) ==
    << << t.rotation.rot[1][1], t.rotation.rot[1][2], t.translation[1] >>,
       << t.rotation.rot[2][1], t.rotation.rot[2][2], t.translation[2] >>,
       << 0, 0, 1 >> >>

JointDerivative(self, i) ==
    LET q == self.q[i].val
        l == self.link_parameters[i]
    IN  IF self.structure.val[i] = "R"
        THEN << << np_cos(q + 1), 0 - np_sin(q + 1), np_cos(q + 1) * l >>,
                << np_sin(q + 1), np_cos(q + 1), np_sin(q + 1) * l >>,
                << 0, 0, 0 >> >>
        ELSE << << 0, 0, np_cos(l) >>,
                << 0, 0, np_sin(l) >>,
                << 0, 0, 0 >> >>

RECURSIVE PoseDerivativeFrom(_, _, _)
PoseDerivativeFrom(self, i, k) ==
    IF k > joint_count(self)
    THEN Eye3
    ELSE matmul3(IF k = i THEN JointDerivative(self, k)
                 ELSE Homogeneous(get_transformation_from_joint(self, k - 1)),
                 PoseDerivativeFrom(self, i, k + 1))

\* d flange / d q[i], as a matrix
PoseDerivative(self, i) ==
    matmul3(Homogeneous(self.base_pose), PoseDerivativeFrom(self, i, 1))

\* (dx, dy, dtheta) read from the derivative D of the pose: the last column
\* holds (dx, dy), and the rotation block is dtheta * R(theta + pi/2)
DerivativeColumn(self, i) ==
    LET D == PoseDerivative(self, i)
        R == flange_pose(self).rotation.rot
        w == CHOOSE x \in { 0, 1 } :
                 /\ D[1][1] = x * (0 - R[2][1]) /\ D[1][2] = x * (0 - R[2][2])
                 /\ D[2][1] = x * R[1][1] /\ D[2][2] = x * R[1][2]
    IN  << D[1][3], D[2][3], w >>

\* the column the claim describes; frames[i] is fk_all_links()[i - 1]
DescribedColumn(self, i) ==
    LET frames == fk_all_links(self)
        flange == flange_pose(self).translation
        origin == frames[i].translation
    IN  IF self.structure.val[i] = "R"
        THEN << 0 - (flange[2] - origin[2]), flange[1] - origin[1], 1 >>
        ELSE << frames[i + 1].rotation.rot[1][1], frames[i + 1].rotation.rot[2][1], 0 >>

\* C2: jacobian() returns three rows (dx, dy, dtheta) of one entry per joint;
\* its column i is the exact derivative of the flange pose with respect to
\* q[i], which is the flange position minus the origin of frame i rotated by
\* +90 degrees with angular entry 1 for a revolute joint, and the x axis of
\* frame i + 1 with angular entry 0 for a prismatic one, for every mix of
\* joints and every base pose.
C2_JacobianIsDerivative ==
    out.op = "jacobian"
        => /\ Len(out.val) = 3
           /\ \A r \in 1 .. 3 : Len(out.val[r]) = joint_count(robot)
           /\ \A i \in 1 .. joint_count(robot) :
                LET column == << out.val[1][i], out.val[2][i], out.val[3][i] >>
                IN  /\ column = DerivativeColumn(robot, i)
                    /\ column = DescribedColumn(robot, i)

\* a mounted R P R manipulator away from zero, and its jacobian
C2_Witness ==
    /\ out.op = "jacobian"
    /\ robot.structure = ListOf(<< "R", "P", "R" >>)
    /\ robot.base_pose = Mounted.val
    /\ robot.q = << Float(1), Float(10), Float(2) >>
    /\ out.val[3] = << 1, 0, 1 >>
    /\ out.val[1][1] # 0

\* The segments of the manipulator as the claims count them: the lines between
\* consecutive frame origins, then the three gripper segments at the flange
\* (the bar across it from -h to +h, and the two fingers of length g from the
\* ends of the bar, for the half opening h and the gripper length g).
Segments(self) ==
    LET frames == fk_all_links(self)
        n      == joint_count(self)
        flange == frames[n + 1]
        p      == flange.translation
        u      == << flange.rotation.rot[1][1], flange.rotation.rot[2][1] >>
        v      == << flange.rotation.rot[1][2], flange.rotation.rot[2][2] >>
        h      == self.gripper_opening \div 2
        g      == self.gripper_length
        lo     == << p[1] - h * v[1], p[2] - h * v[2] >>
        hi     == << p[1] + h * v[1], p[2] + h * v[2] >>
    IN  [k \in 1 .. n |-> << frames[k].translation, frames[k + 1].translation >>]
          \o << << lo, hi >>,
                << lo, << lo[1] + g * u[1], lo[2] + g * u[2] >> >>,
                << hi, << hi[1] + g * u[1], hi[2] + g * u[2] >> >> >>

\* some two segments at index distance >= 2 intersect
NonNeighbourSegmentsIntersect(self) ==
    LET segs == Segments(self)
    IN  \E i \in 1 .. Len(segs) : \E j \in (i + 2) .. Len(segs) :
            LineString_intersects(segs[i], segs[j])

\* the element a segment belongs to: each link but the last is an element of
\* its own, the last link and the three gripper segments form the last element
ElementOf(self, k) == IF k < joint_count(self) THEN k ELSE joint_count(self)

\* some two segments of elements at index distance >= 2 intersect
NonNeighbourElementsIntersect(self) ==
    LET segs == Segments(self)
    IN  \E i \in 1 .. Len(segs) : \E j \in 1 .. Len(segs) :
            /\ ElementOf(self, j) >= ElementOf(self, i) + 2
            /\ LineString_intersects(segs[i], segs[j])

\* C9, as claimed: in_collision() returns true whenever two segments at index
\* distance >= 2 intersect, the segments being the links followed by the three
\* gripper segments; neighbours never make it return true on their own.
C9_NonNeighbourSegments ==
    out.op = "in_collision"
        => /\ NonNeighbourSegmentsIntersect(robot) => out.val
           /\ (robot.obstacles = None /\ out.val) => NonNeighbourSegmentsIntersect(robot)

\* C9, amended: in_collision() returns true whenever two segments of elements
\* at index distance >= 2 intersect, the elements being the links but the last,
\* followed by one element made of the last link and the three gripper
\* segments; with no obstacles it returns true only then, so that neighbouring
\* elements never make it return true on their own.
C9_NonNeighbourElements ==
    out.op = "in_collision"
        => /\ NonNeighbourElementsIntersect(robot) => out.val
           /\ (robot.obstacles = None /\ out.val) => NonNeighbourElementsIntersect(robot)

\* the last link folded back onto the first one, and no obstacle
C9_Witness ==
    /\ out.op = "in_collision"
    /\ robot.obstacles = None
    /\ robot.link_parameters = << 10, 5, 10 >>
    /\ NonNeighbourElementsIntersect(robot)
    /\ out.val

UnitRRR(self) ==
    /\ self.link_parameters = << 10, 10, 10 >>
    /\ self.structure.val = << "R", "R", "R" >>
    /\ self.obstacles = None

Readers ==
    { "flange_pose", "fk_all_links", "fk_from_index_to_ee", "jacobian",
      "jacobian_finite_difference", "in_collision", "sample_configuration",
      "ik_numerical", "ik_analytical" }

ReaderCalled(op) == op \in Readers \cup { r \o " raised" : r \in Readers }

C12_LengthsAgree ==
    (DOMAIN robot # { "q" })
        => /\ Len(robot.structure.val) = Len(robot.link_parameters)
           /\ Len(robot.link_parameters) = Len(robot.q)
           /\ dof(robot) = joint_count(robot)

\* C13: SE2.from_homogenous(t.homogeneous()) equals t for every SE2 t, where
\* homogeneous() is the 3x3 matrix with the rotation matrix in the upper left
\* 2x2 block, the translation in the last column and the last row [0, 0, 1];
\* from_homogenous fails on every matrix whose shape is not 3x3.
C13_HomogeneousRoundTrip ==
    /\ out.op = "SE2.homogeneous"
        => LET h == out.val
               t == out.arg
           IN  /\ Len(h) = 3 /\ \A i \in 1 .. 3 : Len(h[i]) = 3
               /\ << << h[1][1], h[1][2] >>, << h[2][1], h[2][2] >> >> = t.rotation.rot
               /\ << h[1][3], h[2][3] >> = t.translation
               /\ h[3] = << 0, 0, 1 >>
               /\ SE2_eq(SE2_from_homogenous(NdArray(h)), t)
    /\ out.op = "SE2.from_homogenous"
        => \A t \in SE2s :
               out.arg = NdArray(SE2_homogeneous(t)) => SE2_eq(out.val, t)
    /\ out.op \in { "SE2.from_homogenous", "SE2.from_homogenous raised" }
        => (out.op = "SE2.from_homogenous raised" <=> out.arg.shape # << 3, 3 >>)

\* the matrix of the quarter turn moved to (1, 0) has been read back
C13_Witness ==
    /\ out.op = "SE2.from_homogenous"
    /\ out.arg.val = << << 0, 0 - 1, 1 >>, << 1, 0, 0 >>, << 0, 0, 1 >> >>
    /\ out.val = [translation |-> << 1, 0 >>, rotation |-> SO2(1)]

\* C14: fk_all_links() returns n + 1 frames, frame 0 the base pose, frame
\* k + 1 the frame k composed with the transform of joint k, and the last
\* frame flange_pose(); and for every index i in 0 .. n - 1,
\* fk_all_links()[i] * fk_from_index_to_ee(i) equals flange_pose(), for every
\* configuration and joint structure.
C14_FramesChain ==
    /\ out.op = "fk_all_links"
        => LET frames == out.val
               n      == joint_count(robot)
           IN  /\ Len(frames) = n + 1
               /\ SE2_eq(frames[1], robot.base_pose)
               /\ \A k \in 1 .. n :
                    SE2_eq(frames[k + 1],
                           SE2_mul(frames[k], get_transformation_from_joint(robot, k - 1)))
               /\ SE2_eq(frames[n + 1], flange_pose(robot))
    /\ (out.op = "fk_from_index_to_ee" /\ out.arg < joint_count(robot))
        => SE2_eq(SE2_mul(fk_all_links(robot)[out.arg + 1], out.val), flange_pose(robot))

\* fk_from_index_to_ee(1) of a mounted R P R manipulator away from zero: the
\* pose of the flange in the frame of link 1, not in the reference frame
C14_Witness ==
    /\ out.op = "fk_from_index_to_ee"
    /\ out.arg = 1
    /\ robot.structure = ListOf(<< "R", "P", "R" >>)
    /\ robot.base_pose = Mounted.val
    /\ robot.q = << Float(1), Float(10), Float(2) >>
    /\ ~ SE2_eq(out.val, flange_pose(robot))
    /\ SE2_eq(SE2_mul(fk_all_links(robot)[2], out.val), flange_pose(robot))

====
